---- MODULE Spec2Model ----
(***************************************************************************)
(* Model of qr_gen_cli/main.py: the colour parser hex_to_rgb, the two      *)
(* finder-pattern mask builders style_inner_eyes / style_outer_eyes and    *)
(* the click command generate, one action per step of its body.            *)
(*                                                                         *)
(* Strings that the code inspects character by character (the colour       *)
(* arguments) are sequences of one-character strings.  Images are records  *)
(* [size, mode, px] with px a function on the pixel grid; a value that is  *)
(* None in the code is the corresponding record of size 0.                 *)
(***************************************************************************)
EXTENDS Integers, Sequences, FiniteSets, TLC

VARIABLES
    pc,                 \* position in the invocation
    url,                \* payload, held as the QR version the encoder fits it in
    logo,               \* --logo  (NoPath when not given)
    primary,            \* --primary,   a sequence of characters
    secondary,          \* --secondary, a sequence of characters
    output,             \* --output (NoPath when not given)
    scale,              \* --scale
    border,             \* --border
    primary_color,      \* result of hex_to_rgb(primary)
    secondary_color,    \* result of hex_to_rgb(secondary)
    fs,                 \* file system: path -> content
    stdout,             \* messages echoed to the output stream
    stderr,             \* messages written to the error stream
    exit_status,        \* process exit status (NotExited while running)
    qr,                 \* the qrcode.QRCode object
    qr_inner_eyes_img,  \* layer: primary colour, square modules
    qr_outer_eyes_img,  \* layer: primary colour, rounded eyes
    qr_img,             \* layer: secondary colour, rounded modules, logo
    inner_eye_mask,     \* mask returned by style_inner_eyes
    outer_eye_mask,     \* mask returned by style_outer_eyes
    draw_calls,         \* rectangles handed to ImageDraw.rectangle, per builder
    intermediate_img,   \* first composite
    final_image         \* second composite

vars == << pc, url, logo, primary, secondary, output, scale, border,
           primary_color, secondary_color, fs, stdout, stderr, exit_status,
           qr, qr_inner_eyes_img, qr_outer_eyes_img, qr_img,
           inner_eye_mask, outer_eye_mask, draw_calls,
           intermediate_img, final_image >>

(***************************************************************************)
(* Bounds of the model.                                                    *)
(***************************************************************************)
\* longest colour string enumerated character by character
MaxHexLen == 7
\* largest --scale (pixels per module)
MaxScale == 2
\* largest --border (modules)
MaxBorder == 1
\* largest image side, in modules, including the border on both sides
MaxModules == 25

(***************************************************************************)
(* hex_to_rgb                                                              *)
(***************************************************************************)
HexLower == << "0", "1", "2", "3", "4", "5", "6", "7",
               "8", "9", "a", "b", "c", "d", "e", "f" >>

HexUpper == << "0", "1", "2", "3", "4", "5", "6", "7",
               "8", "9", "A", "B", "C", "D", "E", "F" >>

IsHexDigit(c) == \E i \in 1..16 : HexLower[i] = c \/ HexUpper[i] = c

DigitVal(c) == (CHOOSE i \in 1..16 : HexLower[i] = c \/ HexUpper[i] = c) - 1

\* Python's s[a:b] for 0 <= a <= b (0-based, end exclusive, clipped to len(s))
Slice(s, a, b) ==
    LET hi == IF b < Len(s) THEN b ELSE Len(s)
    IN  IF a >= hi THEN << >> ELSE [i \in 1..(hi - a) |-> s[a + i]]

\* str.lstrip(ch): drops every leading occurrence of ch
RECURSIVE lstrip(_, _)
lstrip(s, ch) ==
    IF s # << >> /\ s[1] = ch THEN lstrip(Tail(s), ch) ELSE s

RECURSIVE rstrip(_, _)
rstrip(s, ch) ==
    IF s # << >> /\ s[Len(s)] = ch THEN rstrip(SubSeq(s, 1, Len(s) - 1), ch) ELSE s

\* value of a non-empty sequence of hex digits, most significant first
RECURSIVE DigitsVal(_)
DigitsVal(d) ==
    IF d = << >> THEN 0
    ELSE 16 * DigitsVal(SubSeq(d, 1, Len(d) - 1)) + DigitVal(d[Len(d)])

ValueError == [err |-> "ValueError", val |-> << >>]

Ok(v) == [err |-> "", val |-> v]

\* int(s, 16) on the slices hex_to_rgb takes (at most two characters):
\* surrounding whitespace is dropped, one sign is accepted, and what is left
\* must be a non-empty run of hex digits.  (A "0x" prefix or an underscore
\* needs at least three characters to form a valid literal, so on these
\* slices both are plain non-digits.)
PyInt16(s) ==
    LET t      == rstrip(lstrip(s, " "), " ")
        signed == t # << >> /\ t[1] \in {"+", "-"}
        d      == IF signed THEN Tail(t) ELSE t
    IN  IF d = << >> \/ \E i \in 1..Len(d) : ~IsHexDigit(d[i])
        THEN ValueError
        ELSE Ok(IF signed /\ t[1] = "-" THEN 0 - DigitsVal(d) ELSE DigitsVal(d))

\* hex_to_rgb without the lstrip('#')
hex_to_rgb_no_strip(hex_color) ==
    LET part == [k \in 1..3 |->
                    PyInt16(Slice(hex_color, 2 * (k - 1), 2 * (k - 1) + 2))]
    IN  IF \E k \in 1..3 : part[k].err # ""
        THEN ValueError
        ELSE Ok(<< part[1].val, part[2].val, part[3].val >>)

hex_to_rgb(hex_color) ==
    LET h     == lstrip(hex_color, "#")
        part  == [k \in 1..3 |-> PyInt16(Slice(h, 2 * (k - 1), 2 * (k - 1) + 2))]
    IN  IF \E k \in 1..3 : part[k].err # ""
        THEN ValueError
        ELSE Ok(<< part[1].val, part[2].val, part[3].val >>)

(***************************************************************************)
(* Images and the raster primitives the code calls                         *)
(***************************************************************************)
\* pixel coordinates of an n x n image, (x, y) with (0, 0) the top-left pixel
Pixels(n) == (0..(n - 1)) \X (0..(n - 1))

\* A raster is the tuple of its rows, top to bottom; each row is the tuple of
\* its pixels, left to right.
Raster(n, v) == [y \in 1..n |-> [x \in 1..n |-> v]]

\* img.getpixel((x, y))
At(img, x, y) == img.px[y + 1][x + 1]

NoImage == [size |-> 0, mode |-> "", px |-> << >>]

NoMask == [size |-> 0, mode |-> "", px |-> << >>]

\* Image.new('L', img.size, 0)
NewMask(n) == [size |-> n, mode |-> "L", px |-> Raster(n, 0)]

\* ImageDraw.rectangle((x1, y1, x2, y2), fill=255): both corners are
\* inclusive and only pixels of the image are written.
Rectangle(mask, r) ==
    [mask EXCEPT !.px =
        [y \in 1..mask.size |-> [x \in 1..mask.size |->
            IF r[1] <= x - 1 /\ x - 1 <= r[3] /\ r[2] <= y - 1 /\ y - 1 <= r[4]
            THEN 255 ELSE mask.px[y][x]]]]

\* Image.composite(image1, image2, mask): image1 where the mask is 255,
\* image2 where it is 0.
composite(image1, image2, mask) ==
    [size |-> image1.size, mode |-> image1.mode,
     px   |-> [y \in 1..image1.size |-> [x \in 1..image1.size |->
                  IF mask.px[y][x] = 255 THEN image1.px[y][x]
                  ELSE image2.px[y][x]]]]

\* img.convert('RGB')
convert(img, mode) == [img EXCEPT !.mode = mode]

(***************************************************************************)
(* style_inner_eyes / style_outer_eyes                                     *)
(***************************************************************************)
\* style_inner_eyes with the top-right rectangle covering the whole finder
\* box, as in the earlier version the comments of the function describe
InnerEyeRectsWholeTopRight(img_size, scale_, border_) ==
    LET finder_px    == 7 * scale_
        border_px    == border_ * scale_
        inner_offset == 4 * scale_
        tr_corner_x  == img_size - border_px - finder_px
        bl_corner_y  == img_size - border_px - finder_px
    IN  << << inner_offset + border_px, inner_offset + border_px,
              finder_px + border_px, finder_px + border_px >>,
           << tr_corner_x, border_px,
              tr_corner_x + finder_px, border_px + finder_px >>,
           << border_px + inner_offset, bl_corner_y + inner_offset,
              border_px + finder_px, bl_corner_y + finder_px >> >>

\* the three rectangles style_inner_eyes draws: top left, top right,
\* bottom left
InnerEyeRects(img_size, scale_, border_) ==
    LET finder_px    == 7 * scale_
        border_px    == border_ * scale_
        inner_offset == 4 * scale_
        tl_x1 == inner_offset + border_px
        tl_y1 == inner_offset + border_px
        tl_x2 == finder_px + border_px
        tl_y2 == finder_px + border_px
        tr_corner_x == img_size - border_px - finder_px
        tr_corner_y == border_px
        tr_x1 == tr_corner_x + inner_offset
        tr_y1 == tr_corner_y + inner_offset
        tr_x2 == tr_corner_x + finder_px
        tr_y2 == tr_corner_y + finder_px
        bl_corner_x == border_px
        bl_corner_y == img_size - border_px - finder_px
        bl_x1 == bl_corner_x + inner_offset
        bl_y1 == bl_corner_y + inner_offset
        bl_x2 == bl_corner_x + finder_px
        bl_y2 == bl_corner_y + finder_px
    IN  << << tl_x1, tl_y1, tl_x2, tl_y2 >>,
           << tr_x1, tr_y1, tr_x2, tr_y2 >>,
           << bl_x1, bl_y1, bl_x2, bl_y2 >> >>

\* style_outer_eyes with the finder size as the literal 70 pixels of a
\* scale of 10
OuterEyeRectsLiteral(img_size, scale_, border_) ==
    LET border_px == border_ * scale_
        tr_x == img_size - border_px - 70
        bl_y == img_size - border_px - 70
    IN  << << border_px, border_px, border_px + 70, border_px + 70 >>,
           << tr_x, border_px, tr_x + 70, border_px + 70 >>,
           << border_px, bl_y, border_px + 70, bl_y + 70 >> >>

\* the three rectangles style_outer_eyes draws: top left, top right,
\* bottom left
OuterEyeRects(img_size, scale_, border_) ==
    LET finder_px == 7 * scale_
        border_px == border_ * scale_
        tr_x == img_size - border_px - finder_px
        bl_y == img_size - border_px - finder_px
    IN  << << border_px, border_px, border_px + finder_px, border_px + finder_px >>,
           << tr_x, border_px, tr_x + finder_px, border_px + finder_px >>,
           << border_px, bl_y, border_px + finder_px, bl_y + finder_px >> >>

style_inner_eyes(img, scale_, border_) ==
    LET r == InnerEyeRects(img.size, scale_, border_)
    IN  Rectangle(Rectangle(Rectangle(NewMask(img.size), r[1]), r[2]), r[3])

style_outer_eyes(img, scale_, border_) ==
    LET r == OuterEyeRects(img.size, scale_, border_)
    IN  Rectangle(Rectangle(Rectangle(NewMask(img.size), r[1]), r[2]), r[3])

(***************************************************************************)
(* The QR encoder and renderer (external library), as far as generate      *)
(* depends on them.                                                        *)
(***************************************************************************)
NoQR == [version |-> 0, border |-> 0, box_size |-> 0, error_correction |-> ""]

\* qrcode.QRCode(error_correction=H, border, box_size); add_data; make(fit=True)
MakeQR(url_, border_, scale_) ==
    [version |-> url_, border |-> border_, box_size |-> scale_,
     error_correction |-> "H"]

\* side of the symbol in modules, quiet zone included
ModulesCount(q) == 4 * q.version + 17 + 2 * q.border

\* qr.make_image(...): a raster of the whole symbol; every pixel is tagged
\* with the rendering it belongs to.
make_image(q, layer) ==
    [size |-> ModulesCount(q) * q.box_size, mode |-> "native",
     px   |-> Raster(ModulesCount(q) * q.box_size, layer)]

(***************************************************************************)
(* The file system the invocation runs in                                  *)
(***************************************************************************)
NoPath == ""

\* qr_<timestamp>.png
DefaultName == "qr_YYYYmmdd_HHMMSS.png"

Paths == {"logo.png", "missing.png", "old.png", "out.png",
          "newdir/out.png", "ro/out.png", DefaultName}

Parent(p) ==
    CASE p = "newdir/out.png" -> "newdir"
      [] p = "ro/out.png"     -> "ro"
      [] OTHER                -> "."

ExistingDirs == {".", "ro"}

WritableDirs == {"."}

InitialFS ==
    [p \in Paths |->
        CASE p = "logo.png" -> "LOGO"
          [] p = "old.png"  -> "OLD"
          [] OTHER          -> "absent"]

Exists(f, p) == p \in DOMAIN f /\ f[p] # "absent"

\* --logo declared without exists=True
LogoPathUnchecked(f, logo_) == TRUE

\* click.Path(exists=True) on --logo
LogoPathOk(f, logo_) == logo_ = NoPath \/ Exists(f, logo_)

\* builtins.open(filename, "w+b") inside Image.save
OpenForWrite(p) ==
    IF Parent(p) \notin ExistingDirs THEN "FileNotFoundError"
    ELSE IF Parent(p) \notin WritableDirs THEN "PermissionError"
    ELSE ""

NotExited == -1

\* click's usage error for a --logo path that does not exist
LogoNotFoundMsg == "Error: Invalid value for '--logo' / '-l': Path does not exist."

\* the message of the except ValueError branch
InvalidColorMsg == "Error: Invalid hex color format. Use #RRGGBB."

\* the last echo of generate
SuccessMsg == "QR generated successfully"

(***************************************************************************)
(* Inputs                                                                  *)
(***************************************************************************)
\* default of --primary
DefaultPrimary == << "#", "0", "0", "4", "7", "B", "A" >>

\* default of --secondary
DefaultSecondary == << "#", "0", "0", "C", "E", "7", "C" >>

\* colour arguments tried on the command line: the two defaults, eight
\* digits, five digits, three digits, six non-hex letters
ColorArgs ==
    { DefaultPrimary, DefaultSecondary,
      << "#", "0", "0", "4", "7", "B", "A", "F", "F" >>,
      << "#", "F", "F", "F", "F", "F" >>,
      << "#", "F", "F", "F" >>,
      << "#", "G", "G", "G", "G", "G", "G" >> }

\* the command lines tried: each colour option takes every value of ColorArgs
\* while the other one keeps its default
ColorPairs ==
    (ColorArgs \X {DefaultSecondary}) \cup ({DefaultPrimary} \X ColorArgs)

HexAlphabet == {"#", "0", "b", "G"}

SeqsUpTo(S, n) == UNION { [1..k -> S] : k \in 0..n }

\* the two-digit spelling of v in 0..255, first digit upper, second lower case
Pair(v) == << HexUpper[(v \div 16) + 1], HexLower[(v % 16) + 1] >>

\* '#RRGGBB' with one channel running over 0..255
FullRangeInputs ==
    { << "#" >> \o Pair(c[1]) \o Pair(c[2]) \o Pair(c[3]) :
        c \in ((0..255) \X {0, 127} \X {0, 255})
              \cup ({0, 127} \X (0..255) \X {0, 255})
              \cup ({0, 127} \X {0, 255} \X (0..255)) }

\* strings on which int() accepts a sign or blanks
SignedInputs ==
    { << "#", "+", "1", "-", "2", " ", "3" >>,
      << "#", "1", " ", "+", " ", "0", "0" >>,
      << "+", "1", "+", "2", "+", "3" >> }

HexInputs ==
    SeqsUpTo(HexAlphabet, MaxHexLen) \cup FullRangeInputs
        \cup ColorArgs \cup SignedInputs

LogoArgs == {NoPath, "logo.png", "missing.png"}

OutputArgs == {NoPath, "out.png", "old.png", "logo.png",
               "newdir/out.png", "ro/out.png"}

\* payloads, each held as the smallest QR version that fits it, for which
\* the symbol with its border stays within MaxModules
UrlArgs(border_) == { v \in 1..40 : 4 * v + 17 + 2 * border_ <= MaxModules }

NoColor == [err |-> "unset", val |-> << >>]

NoDraws == [inner |-> << >>, outer |-> << >>]

(***************************************************************************)
(* generate: one action per step                                           *)
(***************************************************************************)
Fresh ==
    /\ primary_color = NoColor
    /\ secondary_color = NoColor
    /\ fs = InitialFS
    /\ stdout = << >>
    /\ stderr = << >>
    /\ exit_status = NotExited
    /\ qr = NoQR
    /\ qr_inner_eyes_img = NoImage
    /\ qr_outer_eyes_img = NoImage
    /\ qr_img = NoImage
    /\ inner_eye_mask = NoMask
    /\ outer_eye_mask = NoMask
    /\ draw_calls = NoDraws
    /\ intermediate_img = NoImage
    /\ final_image = NoImage

Init ==
    /\ pc = "start"
    /\ logo \in LogoArgs
    /\ \E cp \in ColorPairs : primary = cp[1] /\ secondary = cp[2]
    /\ output \in OutputArgs
    /\ scale \in 1..MaxScale
    /\ border \in 0..MaxBorder
    /\ url \in UrlArgs(border)
    /\ Fresh

args == << url, logo, primary, secondary, scale, border >>

images == << qr, qr_inner_eyes_img, qr_outer_eyes_img, qr_img, inner_eye_mask,
             outer_eye_mask, draw_calls, intermediate_img, final_image >>

colors == << primary_color, secondary_color >>

\* click parses the command line; --logo is click.Path(exists=True), a bad
\* value is a usage error: message on the error stream, exit status 2
ParseArgs ==
    /\ pc = "start"
    /\ IF LogoPathOk(fs, logo)
       THEN /\ pc' = "parse_colors"
            /\ UNCHANGED << stderr, exit_status >>
       ELSE /\ pc' = "exited"
            /\ stderr' = Append(stderr, LogoNotFoundMsg)
            /\ exit_status' = 2
    /\ UNCHANGED << args, output, colors, fs, stdout, images >>

\* try: primary_color = hex_to_rgb(primary); secondary_color = ...
\* except ValueError: echo to the error stream and return; the command
\* returning normally ends the process with exit status 0
ParseColors ==
    /\ pc = "parse_colors"
    /\ LET p == hex_to_rgb(primary)
           s == hex_to_rgb(secondary)
       IN  IF p.err # ""
           THEN /\ UNCHANGED colors
                /\ stderr' = Append(stderr, InvalidColorMsg)
                /\ exit_status' = 0
                /\ pc' = "exited"
           ELSE IF s.err # ""
           THEN /\ primary_color' = p
                /\ UNCHANGED secondary_color
                /\ stderr' = Append(stderr, InvalidColorMsg)
                /\ exit_status' = 0
                /\ pc' = "exited"
           ELSE /\ primary_color' = p
                /\ secondary_color' = s
                /\ UNCHANGED << stderr, exit_status >>
                /\ pc' = "default_output"
    /\ UNCHANGED << args, output, fs, stdout, images >>

\* if not output: output = f"qr_{timestamp}.png"
ResolveOutput ==
    /\ pc = "default_output"
    /\ output' = IF output = NoPath THEN DefaultName ELSE output
    /\ pc' = "echo"
    /\ UNCHANGED << args, colors, fs, stdout, stderr, exit_status, images >>

EchoSettings ==
    /\ pc = "echo"
    /\ stdout' = stdout
                 \o << "Generating QR for", "Primary Color", "Secondary Color",
                       "Scale", "Border" >>
                 \o (IF logo # NoPath THEN << "Logo" >> ELSE << >>)
                 \o << "Output" >>
    /\ pc' = "encode"
    /\ UNCHANGED << args, output, colors, fs, stderr, exit_status, images >>

Encode ==
    /\ pc = "encode"
    /\ qr' = MakeQR(url, border, scale)
    /\ pc' = "render_inner"
    /\ UNCHANGED << args, output, colors, fs, stdout, stderr, exit_status,
                    qr_inner_eyes_img, qr_outer_eyes_img, qr_img, inner_eye_mask,
                    outer_eye_mask, draw_calls, intermediate_img, final_image >>

RenderInnerEyes ==
    /\ pc = "render_inner"
    /\ qr_inner_eyes_img' = make_image(qr, "inner")
    /\ pc' = "render_outer"
    /\ UNCHANGED << args, output, colors, fs, stdout, stderr, exit_status,
                    qr, qr_outer_eyes_img, qr_img, inner_eye_mask,
                    outer_eye_mask, draw_calls, intermediate_img, final_image >>

RenderOuterEyes ==
    /\ pc = "render_outer"
    /\ qr_outer_eyes_img' = make_image(qr, "outer")
    /\ pc' = "render_body"
    /\ UNCHANGED << args, output, colors, fs, stdout, stderr, exit_status,
                    qr, qr_inner_eyes_img, qr_img, inner_eye_mask,
                    outer_eye_mask, draw_calls, intermediate_img, final_image >>

\* kwargs['embeded_image_path'] = logo: the renderer opens and pastes the
\* logo; opening a file that is not there raises
RenderBody ==
    /\ pc = "render_body"
    /\ IF logo # NoPath /\ ~Exists(fs, logo)
       THEN /\ stderr' = Append(stderr, "Traceback: FileNotFoundError")
            /\ exit_status' = 1
            /\ pc' = "exited"
            /\ UNCHANGED qr_img
       ELSE /\ qr_img' = make_image(qr, IF logo = NoPath THEN "body"
                                        ELSE "body+" \o fs[logo])
            /\ pc' = "convert"
            /\ UNCHANGED << stderr, exit_status >>
    /\ UNCHANGED << args, output, colors, fs, stdout,
                    qr, qr_inner_eyes_img, qr_outer_eyes_img, inner_eye_mask,
                    outer_eye_mask, draw_calls, intermediate_img, final_image >>

ConvertLayers ==
    /\ pc = "convert"
    /\ qr_inner_eyes_img' = convert(qr_inner_eyes_img, "RGB")
    /\ qr_outer_eyes_img' = convert(qr_outer_eyes_img, "RGB")
    /\ qr_img' = convert(qr_img, "RGB")
    /\ pc' = "masks"
    /\ UNCHANGED << args, output, colors, fs, stdout, stderr, exit_status,
                    qr, inner_eye_mask, outer_eye_mask, draw_calls,
                    intermediate_img, final_image >>

BuildMasks ==
    /\ pc = "masks"
    /\ inner_eye_mask' = style_inner_eyes(qr_img, scale, border)
    /\ outer_eye_mask' = style_outer_eyes(qr_img, scale, border)
    /\ draw_calls' = [inner |-> InnerEyeRects(qr_img.size, scale, border),
                      outer |-> OuterEyeRects(qr_img.size, scale, border)]
    /\ pc' = "composite"
    /\ UNCHANGED << args, output, colors, fs, stdout, stderr, exit_status,
                    qr, qr_inner_eyes_img, qr_outer_eyes_img, qr_img,
                    intermediate_img, final_image >>

Composite ==
    /\ pc = "composite"
    /\ intermediate_img' = composite(qr_inner_eyes_img, qr_img, inner_eye_mask)
    /\ final_image' = composite(qr_outer_eyes_img,
                                composite(qr_inner_eyes_img, qr_img, inner_eye_mask),
                                outer_eye_mask)
    /\ pc' = "save"
    /\ UNCHANGED << args, output, colors, fs, stdout, stderr, exit_status,
                    qr, qr_inner_eyes_img, qr_outer_eyes_img, qr_img,
                    inner_eye_mask, outer_eye_mask, draw_calls >>

\* final_image.save(output): the file is opened for writing and the image
\* written; an exception of open() is not caught: traceback, exit status 1
Save ==
    /\ pc = "save"
    /\ IF OpenForWrite(output) = ""
       THEN /\ fs' = [fs EXCEPT ![output] = "QR"]
            /\ pc' = "echo_done"
            /\ UNCHANGED << stderr, exit_status >>
       ELSE /\ stderr' = Append(stderr, "Traceback: " \o OpenForWrite(output))
            /\ exit_status' = 1
            /\ pc' = "exited"
            /\ UNCHANGED fs
    /\ UNCHANGED << args, output, colors, stdout, images >>

EchoDone ==
    /\ pc = "echo_done"
    /\ stdout' = Append(stdout, SuccessMsg)
    /\ exit_status' = 0
    /\ pc' = "exited"
    /\ UNCHANGED << args, output, colors, fs, stderr, images >>

Next ==
    \/ ParseArgs
    \/ ParseColors
    \/ ResolveOutput
    \/ EchoSettings
    \/ Encode
    \/ RenderInnerEyes
    \/ RenderOuterEyes
    \/ RenderBody
    \/ ConvertLayers
    \/ BuildMasks
    \/ Composite
    \/ Save
    \/ EchoDone

Spec == Init /\ [][Next]_vars

(***************************************************************************)
(* hex_to_rgb on its own: every input string, one application              *)
(***************************************************************************)
InitHex ==
    /\ pc = "hex"
    /\ primary \in HexInputs
    /\ secondary = DefaultSecondary
    /\ url = 1
    /\ logo = NoPath
    /\ output = NoPath
    /\ scale = 1
    /\ border = 0
    /\ Fresh

HexToRgb ==
    /\ pc = "hex"
    /\ primary_color' = hex_to_rgb(primary)
    /\ pc' = "hex_done"
    /\ UNCHANGED << args, output, secondary_color, fs, stdout, stderr,
                    exit_status, images >>

NextHex == HexToRgb

SpecHex == InitHex /\ [][NextHex]_vars

(***************************************************************************)
(* The mask builders on their own: every scale, border and image size      *)
(***************************************************************************)
InitGeom ==
    /\ pc = "geom"
    /\ primary = DefaultPrimary
    /\ secondary = DefaultSecondary
    /\ url = 1
    /\ logo = NoPath
    /\ output = NoPath
    /\ scale \in 1..MaxScale
    /\ border \in 0..MaxBorder
    /\ primary_color = NoColor
    /\ secondary_color = NoColor
    /\ fs = InitialFS
    /\ stdout = << >>
    /\ stderr = << >>
    /\ exit_status = NotExited
    /\ qr = NoQR
    /\ qr_inner_eyes_img = NoImage
    /\ qr_outer_eyes_img = NoImage
    /\ \E n \in 1..MaxModules :
          qr_img = [size |-> n * scale, mode |-> "RGB",
                    px |-> Raster(n * scale, "body")]
    /\ inner_eye_mask = NoMask
    /\ outer_eye_mask = NoMask
    /\ draw_calls = NoDraws
    /\ intermediate_img = NoImage
    /\ final_image = NoImage

StyleInnerEyes ==
    /\ pc = "geom"
    /\ inner_eye_mask = NoMask
    /\ inner_eye_mask' = style_inner_eyes(qr_img, scale, border)
    /\ draw_calls' = [draw_calls EXCEPT
                         !.inner = InnerEyeRects(qr_img.size, scale, border)]
    /\ UNCHANGED << pc, args, output, colors, fs, stdout, stderr, exit_status,
                    qr, qr_inner_eyes_img, qr_outer_eyes_img, qr_img,
                    outer_eye_mask, intermediate_img, final_image >>

StyleOuterEyes ==
    /\ pc = "geom"
    /\ outer_eye_mask = NoMask
    /\ outer_eye_mask' = style_outer_eyes(qr_img, scale, border)
    /\ draw_calls' = [draw_calls EXCEPT
                         !.outer = OuterEyeRects(qr_img.size, scale, border)]
    /\ UNCHANGED << pc, args, output, colors, fs, stdout, stderr, exit_status,
                    qr, qr_inner_eyes_img, qr_outer_eyes_img, qr_img,
                    inner_eye_mask, intermediate_img, final_image >>

NextGeom ==
    \/ StyleInnerEyes
    \/ StyleOuterEyes

SpecGeom == InitGeom /\ [][NextGeom]_vars

(***************************************************************************)
(* Properties                                                              *)
(***************************************************************************)
\* '#' followed by exactly six hex digits
IsHashRRGGBB(s) ==
    /\ Len(s) = 7
    /\ s[1] = "#"
    /\ \A i \in 2..7 : IsHexDigit(s[i])

\* value of the k-th digit pair of '#RRGGBB'
PairValue(s, k) == 16 * DigitVal(s[2 * k]) + DigitVal(s[2 * k + 1])

\* C1: for every string '#' + six hex digits, hex_to_rgb returns the triple
\* of the values of its three digit pairs, each in 0..255.
C1_HexToRgbExact ==
    (pc = "hex_done" /\ IsHashRRGGBB(primary)) =>
        /\ primary_color.err = ""
        /\ primary_color.val =
              << PairValue(primary, 1), PairValue(primary, 2), PairValue(primary, 3) >>
        /\ \A k \in 1..3 : primary_color.val[k] \in 0..255

C1_Witness ==
    /\ pc = "hex_done"
    /\ primary = DefaultPrimary
    /\ primary_color = Ok(<< 0, 71, 186 >>)

\* exactly six hex digits once the leading '#' are stripped
WellFormedColor(s) ==
    LET h == lstrip(s, "#")
    IN  Len(h) = 6 /\ \A i \in 1..6 : IsHexDigit(h[i])

NothingRendered ==
    /\ qr = NoQR
    /\ qr_inner_eyes_img = NoImage
    /\ qr_outer_eyes_img = NoImage
    /\ qr_img = NoImage
    /\ inner_eye_mask = NoMask
    /\ outer_eye_mask = NoMask
    /\ intermediate_img = NoImage
    /\ final_image = NoImage

InStderr(m) == \E i \in 1..Len(stderr) : stderr[i] = m

InStdout(m) == \E i \in 1..Len(stdout) : stdout[i] = m

LogoGivenAndPresent == logo = NoPath \/ Exists(InitialFS, logo)

\* C2: a run whose primary or secondary colour is not exactly six hex digits
\* after stripping '#' renders nothing, writes no file and reports the
\* invalid colour format.
C2_MalformedColorRejected ==
    (LogoGivenAndPresent /\ (~WellFormedColor(primary) \/ ~WellFormedColor(secondary))) =>
        /\ NothingRendered
        /\ fs = InitialFS
        /\ pc = "exited" => InStderr(InvalidColorMsg)

\* the failure the invocation runs into, by the order the steps come in
FailureKind ==
    IF logo # NoPath /\ ~Exists(InitialFS, logo) THEN "logo"
    ELSE IF hex_to_rgb(primary).err # "" \/ hex_to_rgb(secondary).err # ""
    THEN "color"
    ELSE IF OpenForWrite(IF output = NoPath THEN DefaultName ELSE output) # ""
    THEN "output"
    ELSE "none"

\* C3: an invalid colour, a missing logo and an unwritable output each end
\* the run with a message on the error stream that tells the kind, a non-zero
\* exit status and no file written.
C3_FailuresExitNonZero ==
    (pc = "exited" /\ FailureKind # "none") =>
        /\ exit_status # 0
        /\ Len(stderr) = 1
        /\ (stderr[1] = InvalidColorMsg) <=> (FailureKind = "color")
        /\ (stderr[1] = LogoNotFoundMsg) <=> (FailureKind = "logo")
        /\ fs = InitialFS

ValidationPassed ==
    /\ primary_color.err = ""
    /\ secondary_color.err = ""
    /\ (logo = NoPath \/ Exists(fs, logo))

ValidationFailed == InStderr(InvalidColorMsg) \/ InStderr(LogoNotFoundMsg)

\* C4: the run is at or past QR encoding, or holds an encoded symbol, a layer,
\* a mask, a composite or a written file, only when both colours were parsed
\* and the logo path was found to exist; a run whose validation reported a
\* failure has taken none of these steps and written nothing.
C4_FailFast ==
    /\ (\/ ~NothingRendered
        \/ fs # InitialFS
        \/ pc \in {"encode", "render_inner", "render_outer", "render_body",
                   "convert", "masks", "composite", "save", "echo_done"})
          => ValidationPassed
    /\ ValidationFailed => (NothingRendered /\ fs = InitialFS)

C4_Witness ==
    /\ pc = "exited"
    /\ logo = "logo.png"
    /\ output = "old.png"
    /\ InStderr(InvalidColorMsg)
    /\ primary_color.err = ""
    /\ NothingRendered
    /\ fs = InitialFS

BothDrawn == draw_calls.inner # << >> /\ draw_calls.outer # << >>

\* C5 as stated: every edge of each inner-eye rectangle lies strictly inside
\* the outer-eye rectangle of the same corner.
C5_StrictlyContained ==
    BothDrawn =>
        \A k \in 1..3 :
            /\ draw_calls.inner[k][1] > draw_calls.outer[k][1]
            /\ draw_calls.inner[k][2] > draw_calls.outer[k][2]
            /\ draw_calls.inner[k][3] < draw_calls.outer[k][3]
            /\ draw_calls.inner[k][4] < draw_calls.outer[k][4]

\* C5 as amended: each inner-eye rectangle lies within the outer-eye
\* rectangle of the same corner, its left and top edges strictly inside and
\* its right and bottom edges on those of the outer rectangle.
C5_ContainedSharingCorner ==
    BothDrawn =>
        \A k \in 1..3 :
            /\ draw_calls.inner[k][1] > draw_calls.outer[k][1]
            /\ draw_calls.inner[k][2] > draw_calls.outer[k][2]
            /\ draw_calls.inner[k][1] < draw_calls.inner[k][3]
            /\ draw_calls.inner[k][2] < draw_calls.inner[k][4]
            /\ draw_calls.inner[k][3] = draw_calls.outer[k][3]
            /\ draw_calls.inner[k][4] = draw_calls.outer[k][4]

C5_Witness ==
    /\ BothDrawn
    /\ scale = 2
    /\ border = 1
    /\ qr_img.size = 46
    /\ draw_calls.inner[2] = << 38, 10, 44, 16 >>
    /\ draw_calls.outer[2] = << 30, 2, 44, 16 >>

\* C6: in the final image a pixel inside the inner-eye mask is the inner-eye
\* layer's, a pixel inside the outer-eye mask but outside the inner-eye mask
\* is the outer-eye layer's, and any other pixel is the body layer's.
C6_CompositePrecedence ==
    final_image # NoImage =>
        \A p \in Pixels(final_image.size) :
            At(final_image, p[1], p[2]) =
                IF At(inner_eye_mask, p[1], p[2]) = 255
                THEN At(qr_inner_eyes_img, p[1], p[2])
                ELSE IF At(outer_eye_mask, p[1], p[2]) = 255
                THEN At(qr_outer_eyes_img, p[1], p[2])
                ELSE At(qr_img, p[1], p[2])

\* C7: a run with valid colours whose output path lies in a directory that
\* does not exist yet succeeds and leaves the image file at that path.
C7_OutputDirectoryCreated ==
    (/\ pc = "exited"
     /\ LogoGivenAndPresent
     /\ WellFormedColor(primary)
     /\ WellFormedColor(secondary)
     /\ output # NoPath
     /\ Parent(output) \notin ExistingDirs) =>
        /\ exit_status = 0
        /\ InStdout(SuccessMsg)
        /\ Exists(fs, output)

Written == { p \in Paths : fs[p] # InitialFS[p] }

\* C8: a finished run has written exactly one file if it succeeded and none
\* if it failed, and the logo file holds what it held before the run.
C8_InputsUntouched ==
    pc = "exited" =>
        /\ InStdout(SuccessMsg) => Cardinality(Written) = 1
        /\ ~InStdout(SuccessMsg) => Written = {}
        /\ logo # NoPath => fs[logo] = InitialFS[logo]

\* anchors of the three finder boxes: top left, top right, bottom left
Anchor(k, img_size, scale_, border_) ==
    LET finder_px == 7 * scale_
        border_px == border_ * scale_
    IN  CASE k = 1 -> << border_px, border_px >>
          [] k = 2 -> << img_size - border_px - finder_px, border_px >>
          [] k = 3 -> << border_px, img_size - border_px - finder_px >>

RefOuter(a, scale_) == << a[1], a[2], a[1] + 7 * scale_, a[2] + 7 * scale_ >>

RefInner(a, scale_) ==
    << a[1] + 4 * scale_, a[2] + 4 * scale_, a[1] + 7 * scale_, a[2] + 7 * scale_ >>

\* C9: the rectangles handed to the fill primitive are, for each of the three
\* anchors, (ax, ay, ax + 7*scale, ay + 7*scale) for the outer eyes and
\* (ax + 4*scale, ay + 4*scale, ax + 7*scale, ay + 7*scale) for the inner eyes.
C9_RectanglesParametrized ==
    /\ draw_calls.outer # << >> =>
          draw_calls.outer =
              [k \in 1..3 |-> RefOuter(Anchor(k, qr_img.size, scale, border), scale)]
    /\ draw_calls.inner # << >> =>
          draw_calls.inner =
              [k \in 1..3 |-> RefInner(Anchor(k, qr_img.size, scale, border), scale)]

C9_Witness ==
    /\ BothDrawn
    /\ scale = 2
    /\ border = 1
    /\ qr_img.size = 50
    /\ draw_calls.outer[3] = << 2, 34, 16, 48 >>
    /\ draw_calls.inner[3] = << 10, 42, 16, 48 >>

InFinderBox(x, y, a, scale_) ==
    /\ a[1] <= x /\ x < a[1] + 7 * scale_
    /\ a[2] <= y /\ y < a[2] + 7 * scale_

\* C10: for an image of N*scale pixels with N >= 21 + 2*border, the pixels
\* equal to 255 in the outer-eye mask are exactly those of the three 7x7-module
\* finder boxes, and no rectangle drawn reaches past the image.
C10_OuterMaskIsFinderBoxes ==
    (outer_eye_mask # NoMask /\ qr_img.size >= (21 + 2 * border) * scale) =>
        /\ \A p \in Pixels(qr_img.size) :
              (At(outer_eye_mask, p[1], p[2]) = 255) <=>
                  \E k \in 1..3 :
                      InFinderBox(p[1], p[2],
                                  Anchor(k, qr_img.size, scale, border), scale)
        /\ \A k \in 1..3 :
              /\ draw_calls.outer[k][3] <= qr_img.size - 1
              /\ draw_calls.outer[k][4] <= qr_img.size - 1

====
